---- MODULE Spec2Model ----
(***************************************************************************)
(* Model of the parameter-sweep engine paassage_simu                       *)
(* (engines/simgrid_paasage/paassage_simu.py): the dispatcher run(), the   *)
(* worker threads running workflow(), the ParamSweeper bookkeeping and the *)
(* reservation the dispatcher polls; and of the storage benchmark script   *)
(* admin/benchmark_storage5k/prototype.py, a separate program with its own *)
(* specification BenchSpec.                                                *)
(***************************************************************************)
EXTENDS Integers, Sequences, FiniteSets, TLC

\* ---------------------------------------------------------------- bounds
NValues == 2     \* values of the second swept parameter
MaxHosts == 2    \* hosts a reservation can return
MaxSmt == 2      \* largest smt_size of a host
MaxNNodes == 2   \* largest value given to option -n
MaxJobs == 2     \* reservations a run can go through
MaxChunk == 3    \* largest chunk size storage5k reports
MaxOarId == 2    \* largest job id OAR hands out

\* ------------------------------------------------------------- constants
None == 0        \* Python's None for self.oargrid_job_id

VARIABLES
    options,          \* self.options: n_nodes, oargrid_job_id, keep_alive
    pc,               \* position of the main thread in run()
    oargrid_job_id,   \* self.oargrid_job_id
    job_is_dead,      \* local job_is_dead of run()
    hosts,            \* self.hosts after deploy()
    available_hosts,  \* local list available_hosts
    threads,          \* keys of the local dict threads
    workers,          \* Thread objects: comb, host, its job, running or dead
    nthreads,         \* number of Thread objects created so far
    remaining,        \* ParamSweeper: combinations still to do
    inprogress,       \* ParamSweeper: combinations handed out
    completed,        \* ParamSweeper: combinations marked done
    canceled,         \* ParamSweeper: combinations canceled
    njobs,            \* reservations acquired so far (ids 1..njobs)
    aliveJobs,        \* reservations the service reports alive
    released,         \* job ids passed to oargriddel, in call order
    spawned,          \* history: threads started per combination
    sawDead,          \* history: a poll in this dispatch loop returned false
    left,             \* history: which break was taken last
    ext_failure,      \* history: an external service raised
    proto             \* prototype.py: its position and module-level names

vars == <<options, pc, oargrid_job_id, job_is_dead, hosts, available_hosts,
          threads, workers, nthreads, remaining, inprogress, completed,
          canceled, njobs, aliveJobs, released, spawned, sawDead, left,
          ext_failure, proto>>

\* ------------------------------------------------------- pure operators
\* Python's range(a, b)
range(a, b) == a .. (b - 1)

\* define_parameters: the ranges swept over, 'http_c1.xlarge': range(1) and
\* 'http_m1.large': range(1, 4) with its upper end bounded
parameters == <<range(0, 1), range(1, NValues + 1)>>

\* execo_engine.sweep: the Cartesian product of the ranges
sweep(p) == {<<a, b>> : a \in p[1], b \in p[2]}

Combs == sweep(parameters)

Hosts == 1 .. MaxHosts

\* get_host_attributes(host)['architecture']['smt_size']: the first host
\* has a single hardware thread, the others MaxSmt
smt_size(h) == IF h = 1 THEN 1 ELSE MaxSmt

\* the sequences listing every element of S exactly once
Orders(S) == {s \in [1 .. Cardinality(S) -> S] :
                 \A i, j \in 1 .. Cardinality(S) : s[i] = s[j] => i = j}

\* the possible results of deploy(): the deployed hosts, in reservation order
RECURSIVE SortedSeq(_)
SortedSeq(S) ==
    IF S = {} THEN <<>>
    ELSE LET m == CHOOSE x \in S : \A y \in S : x <= y
         IN <<m>> \o SortedSeq(S \ {m})

Deployments == {SortedSeq(S) : S \in SUBSET Hosts}

\* [host for host in self.hosts for i in range(smt_size)]
RECURSIVE Slots(_)
Slots(hs) ==
    IF hs = <<>> THEN <<>>
    ELSE [i \in 1 .. smt_size(Head(hs)) |-> Head(hs)] \o Slots(Tail(hs))

\* self.is_job_alive()
is_job_alive == oargrid_job_id \in aliveJobs

\* t.is_alive()
is_alive(t) == workers[t].pc # "dead"

\* the Thread objects that still matter: running, or still in the dict
Keep(w, tracked) == [t \in {u \in DOMAIN w : w[u].pc # "dead" \/ u \in tracked}
                        |-> w[t]]

\* prototype.py before its first statement: no name is bound yet; acquired
\* and deleted are the history of the reservations granted to the script
\* and of the jobs passed to oardel, as (job id, site) pairs
ProtoStart ==
    [pc |-> "get_chunk_size", chunk_size |-> None, number |-> None,
     storage_job_id |-> None, jobs |-> None, hosts |-> <<>>,
     acquired |-> {}, deleted |-> {}]

\* --------------------------------------------------------------- Init
Init ==
    /\ options \in [n_nodes : 0 .. MaxNNodes,
                    oargrid_job_id : {None, 1},
                    keep_alive : BOOLEAN]
    /\ pc = "start"
    /\ oargrid_job_id = None
    /\ job_is_dead = FALSE
    /\ hosts = <<>>
    /\ available_hosts = <<>>
    /\ threads = {}
    /\ workers = [t \in {} |-> None]
    /\ nthreads = 0
    /\ remaining = {}
    /\ inprogress = {}
    /\ completed = {}
    /\ canceled = {}
    /\ njobs = IF options.oargrid_job_id # None THEN 1 ELSE 0
    /\ aliveJobs = IF options.oargrid_job_id # None THEN {1} ELSE {}
    /\ released = <<>>
    /\ spawned = [c \in Combs |-> 0]
    /\ sawDead = FALSE
    /\ left = "none"
    /\ ext_failure = FALSE
    /\ proto = ProtoStart

engineVars == <<options, pc, oargrid_job_id, job_is_dead, hosts,
                available_hosts, threads, workers, nthreads, remaining,
                inprogress, completed, canceled, njobs, aliveJobs, released,
                spawned, sawDead, left, ext_failure>>
sweeperVars == <<remaining, inprogress, completed, canceled>>
poolVars == <<hosts, available_hosts, threads, workers, nthreads>>
jobVars == <<njobs, aliveJobs, released>>
histVars == <<spawned, sawDead, left, ext_failure>>

\* ------------------------------------------------------ the dispatcher
\* run(), lines 173-180: job id from the option, define_parameters()
RunStart ==
    /\ pc = "start"
    /\ oargrid_job_id' = IF options.oargrid_job_id # None
                         THEN options.oargrid_job_id ELSE None
    /\ remaining' = Combs
    /\ pc' = "outer"
    /\ UNCHANGED <<proto, options, job_is_dead, inprogress, completed, canceled>>
    /\ UNCHANGED <<poolVars, jobVars, histVars>>

\* line 184-186: while len(get_remaining()) > 0, if no job ...
OuterTest ==
    /\ pc = "outer"
    /\ pc' = IF remaining = {} THEN "finally"
             ELSE IF oargrid_job_id = None THEN "reserve" ELSE "deploy"
    /\ UNCHANGED <<proto, options, oargrid_job_id, job_is_dead>>
    /\ UNCHANGED <<sweeperVars, poolVars, jobVars, histVars>>

\* lines 186-187: make_reservation() up to the return of oargridsub
MakeReservation ==
    /\ pc = "reserve"
    /\ njobs' = njobs + 1
    /\ oargrid_job_id' = njobs + 1
    /\ aliveJobs' = aliveJobs \cup {njobs + 1}
    /\ pc' = "deploy"
    /\ UNCHANGED <<proto, options, job_is_dead, released>>
    /\ UNCHANGED <<sweeperVars, poolVars, histVars>>

\* deploy() whose empty result is not tested: the pool is built from no host
\* and the dispatch loop is entered
Deploy_noBreak ==
    /\ pc = "deploy"
    /\ \E d \in Deployments :
          /\ hosts' = d
          /\ pc' = "loop"
          /\ available_hosts' = Slots(d)
          /\ threads' = {}
          /\ workers' = Keep(workers, {})
          /\ left' = IF Len(d) = 0 THEN "nohosts" ELSE left
    /\ UNCHANGED <<proto, options, oargrid_job_id, job_is_dead, nthreads>>
    /\ UNCHANGED <<sweeperVars, jobVars, spawned, sawDead, ext_failure>>

\* lines 189-206: wait for the job, list its nodes, deploy; with no host
\* deployed, break out of the outer loop (lines 199-200), else build the pool
Deploy ==
    /\ pc = "deploy"
    /\ \E d \in Deployments :
          /\ hosts' = d
          /\ IF Len(d) = 0
             THEN /\ pc' = "finally"
                  /\ left' = "nohosts"
                  /\ UNCHANGED <<available_hosts, threads, workers>>
             ELSE /\ pc' = "loop"
                  /\ left' = left
                  /\ available_hosts' = Slots(d)
                  /\ threads' = {}
                  /\ workers' = Keep(workers, {})
    /\ UNCHANGED <<proto, options, oargrid_job_id, job_is_dead, nthreads>>
    /\ UNCHANGED <<sweeperVars, jobVars, spawned, sawDead, ext_failure>>

\* lines 208-209: while self.is_job_alive() or len(threads.keys()) > 0
LoopTest ==
    /\ pc = "loop"
    /\ IF is_job_alive \/ threads # {}
       THEN /\ job_is_dead' = FALSE
            /\ pc' = "wait"
            /\ left' = left
       ELSE /\ pc' = "after"
            /\ left' = "cond"
            /\ UNCHANGED job_is_dead
    /\ sawDead' = (sawDead \/ ~is_job_alive)
    /\ UNCHANGED <<proto, options, oargrid_job_id, spawned, ext_failure>>
    /\ UNCHANGED <<sweeperVars, poolVars, jobVars>>

\* the pass that deletes the finished threads without appending their hosts
WaitTest_noAppend ==
    /\ pc = "wait"
    /\ IF options.n_nodes > Len(available_hosts)
       THEN LET dead == {t \in threads : ~is_alive(t)}
            IN /\ available_hosts' = available_hosts
               /\ threads' = threads \ dead
               /\ workers' = Keep(workers, threads \ dead)
               /\ pc' = "poll"
       ELSE /\ pc' = "next"
            /\ UNCHANGED <<available_hosts, threads, workers>>
    /\ UNCHANGED <<proto, options, oargrid_job_id, job_is_dead, hosts, nthreads>>
    /\ UNCHANGED <<sweeperVars, jobVars, histVars>>

\* lines 210-216: while n_nodes > len(available_hosts), one pass over the
\* dict that gives the hosts of the finished threads back, then sleep(5)
WaitTest ==
    /\ pc = "wait"
    /\ IF options.n_nodes > Len(available_hosts)
       THEN LET dead == {t \in threads : ~is_alive(t)}
            IN \E o \in Orders(dead) :
                  /\ available_hosts' = available_hosts \o
                         [i \in 1 .. Cardinality(dead) |-> workers[o[i]].host]
                  /\ threads' = threads \ dead
                  /\ workers' = Keep(workers, threads \ dead)
                  /\ pc' = "poll"
       ELSE /\ pc' = "next"
            /\ UNCHANGED <<available_hosts, threads, workers>>
    /\ UNCHANGED <<proto, options, oargrid_job_id, job_is_dead, hosts, nthreads>>
    /\ UNCHANGED <<sweeperVars, jobVars, histVars>>

\* lines 217-221: if not is_job_alive(): job_is_dead = True, break, break
Poll ==
    /\ pc = "poll"
    /\ IF ~is_job_alive
       THEN /\ job_is_dead' = TRUE
            /\ pc' = "after"
            /\ left' = "dead"
            /\ sawDead' = TRUE
       ELSE /\ pc' = "wait"
            /\ UNCHANGED <<job_is_dead, left, sawDead>>
    /\ UNCHANGED <<proto, options, oargrid_job_id, spawned, ext_failure>>
    /\ UNCHANGED <<sweeperVars, poolVars, jobVars>>

\* ParamSweeper.get_next when a combination remains: it becomes in-progress
get_next(c) ==
    /\ c \in remaining
    /\ remaining' = remaining \ {c}
    /\ inprogress' = inprogress \cup {c}
    /\ UNCHANGED <<completed, canceled>>

\* the thread start that leaves the head it took in the pool
StartThread_keepHead(c) ==
    /\ available_hosts' = available_hosts
    /\ nthreads' = nthreads + 1
    /\ threads' = threads \cup {nthreads + 1}
    /\ workers' = [t \in DOMAIN workers \cup {nthreads + 1} |->
                     IF t = nthreads + 1
                     THEN [comb |-> c, host |-> Head(available_hosts),
                           job |-> oargrid_job_id, pc |-> "run"]
                     ELSE workers[t]]
    /\ spawned' = [spawned EXCEPT ![c] = @ + 1]

\* the thread start that takes the slot at the end of the pool
StartThread_lastSlot(c) ==
    /\ available_hosts' = SubSeq(available_hosts, 1, Len(available_hosts) - 1)
    /\ nthreads' = nthreads + 1
    /\ threads' = threads \cup {nthreads + 1}
    /\ workers' = [t \in DOMAIN workers \cup {nthreads + 1} |->
                     IF t = nthreads + 1
                     THEN [comb |-> c,
                           host |-> available_hosts[Len(available_hosts)],
                           job |-> oargrid_job_id, pc |-> "run"]
                     ELSE workers[t]]
    /\ spawned' = [spawned EXCEPT ![c] = @ + 1]

\* lines 235-242: take the head of the pool, create and start the thread
StartThread(c) ==
    /\ available_hosts' = Tail(available_hosts)
    /\ nthreads' = nthreads + 1
    /\ threads' = threads \cup {nthreads + 1}
    /\ workers' = [t \in DOMAIN workers \cup {nthreads + 1} |->
                     IF t = nthreads + 1
                     THEN [comb |-> c, host |-> Head(available_hosts),
                           job |-> oargrid_job_id, pc |-> "run"]
                     ELSE workers[t]]
    /\ spawned' = [spawned EXCEPT ![c] = @ + 1]

\* Dispatch with a stale comb: the thread is given a combination that was
\* handed out before instead of the one get_next() just returned
Dispatch_staleComb ==
    /\ pc = "next"
    /\ \E c \in remaining :
          /\ get_next(c)
          /\ IF available_hosts = <<>>
             THEN /\ pc' = "finally"
                  /\ UNCHANGED <<available_hosts, nthreads, threads, workers,
                                 spawned>>
             ELSE /\ \E d \in inprogress \cup {c} : StartThread(d)
                  /\ pc' = "loop"
    /\ UNCHANGED <<proto, options, oargrid_job_id, job_is_dead, hosts>>
    /\ UNCHANGED <<jobVars, sawDead, left, ext_failure>>

\* lines 224-242 when get_next() returns a combination
Dispatch ==
    /\ pc = "next"
    /\ \E c \in remaining :
          /\ get_next(c)
          /\ IF available_hosts = <<>>
             THEN \* available_hosts[0] raises IndexError
                  /\ pc' = "finally"
                  /\ UNCHANGED <<available_hosts, nthreads, threads, workers,
                                 spawned>>
             ELSE /\ StartThread(c)
                  /\ pc' = "loop"
    /\ UNCHANGED <<proto, options, oargrid_job_id, job_is_dead, hosts>>
    /\ UNCHANGED <<jobVars, sawDead, left, ext_failure>>

\* lines 224-226: get_next() returns None
NoneLeft ==
    /\ pc = "next"
    /\ remaining = {}
    /\ pc' = "drain"
    /\ UNCHANGED <<proto, options, oargrid_job_id, job_is_dead>>
    /\ UNCHANGED <<sweeperVars, poolVars, jobVars, histVars>>

\* lines 226-233: while len(threads.keys()) > 0, drop the finished threads
\* and sleep(20); then break
Drain ==
    /\ pc = "drain"
    /\ IF threads # {}
       THEN LET dead == {t \in threads : ~is_alive(t)}
            IN /\ threads' = threads \ dead
               /\ workers' = Keep(workers, threads \ dead)
               /\ UNCHANGED <<pc, left>>
       ELSE /\ pc' = "after"
            /\ left' = "drain"
            /\ UNCHANGED <<threads, workers>>
    /\ UNCHANGED <<proto, options, oargrid_job_id, job_is_dead, hosts,
                   available_hosts, nthreads>>
    /\ UNCHANGED <<sweeperVars, jobVars, spawned, sawDead, ext_failure>>

\* the end of an outer iteration that keeps the id of a dead job
After_keepId ==
    /\ pc = "after"
    /\ LET dead == job_is_dead \/ ~is_job_alive
       IN /\ job_is_dead' = dead
          /\ oargrid_job_id' = oargrid_job_id
    /\ sawDead' = FALSE
    /\ left' = "none"
    /\ pc' = "outer"
    /\ UNCHANGED <<proto, options, spawned, ext_failure>>
    /\ UNCHANGED <<sweeperVars, poolVars, jobVars>>

\* lines 244-248: a last poll; a dead job is forgotten
After ==
    /\ pc = "after"
    /\ LET dead == job_is_dead \/ ~is_job_alive
       IN /\ job_is_dead' = dead
          /\ oargrid_job_id' = IF dead THEN None ELSE oargrid_job_id
    /\ sawDead' = FALSE
    /\ left' = "none"
    /\ pc' = "outer"
    /\ UNCHANGED <<proto, options, spawned, ext_failure>>
    /\ UNCHANGED <<sweeperVars, poolVars, jobVars>>

\* the finally clause without the test of keep_alive
Finally_ignoreKeepAlive ==
    /\ pc = "finally"
    /\ released' = IF oargrid_job_id # None
                   THEN Append(released, oargrid_job_id)
                   ELSE released
    /\ pc' = "exit"
    /\ UNCHANGED <<proto, options, oargrid_job_id, job_is_dead, njobs, aliveJobs>>
    /\ UNCHANGED <<sweeperVars, poolVars, histVars>>

\* the finally clause with the keep_alive test inverted
Finally_inverted ==
    /\ pc = "finally"
    /\ released' = IF oargrid_job_id # None /\ options.keep_alive
                   THEN Append(released, oargrid_job_id)
                   ELSE released
    /\ pc' = "exit"
    /\ UNCHANGED <<proto, options, oargrid_job_id, job_is_dead, njobs, aliveJobs>>
    /\ UNCHANGED <<sweeperVars, poolVars, histVars>>

\* lines 251-257: the finally clause of run()
Finally ==
    /\ pc = "finally"
    /\ released' = IF oargrid_job_id # None /\ ~options.keep_alive
                   THEN Append(released, oargrid_job_id)
                   ELSE released
    /\ pc' = "exit"
    /\ UNCHANGED <<proto, options, oargrid_job_id, job_is_dead, njobs, aliveJobs>>
    /\ UNCHANGED <<sweeperVars, poolVars, histVars>>

\* an execo call of the try block raises: make_reservation (line 187),
\* wait_oargrid_job_start / deploy (lines 189-196), get_next / Thread.start
\* (lines 224-242); control goes to the finally clause
Raise ==
    /\ pc \in {"reserve", "deploy", "next"}
    /\ pc' = "finally"
    /\ ext_failure' = TRUE
    /\ UNCHANGED <<proto, options, oargrid_job_id, job_is_dead>>
    /\ UNCHANGED <<sweeperVars, poolVars, jobVars, spawned, sawDead, left>>

\* --------------------------------------------------------- the workers
\* ParamSweeper.done
done(c) ==
    /\ inprogress' = inprogress \ {c}
    /\ completed' = completed \cup {c}
    /\ UNCHANGED <<remaining, canceled>>

\* cancel that puts the combination back among the remaining ones
cancel_requeue(c) ==
    /\ inprogress' = inprogress \ {c}
    /\ remaining' = remaining \cup {c}
    /\ UNCHANGED <<canceled, completed>>

\* ParamSweeper.cancel
cancel(c) ==
    /\ inprogress' = inprogress \ {c}
    /\ canceled' = canceled \cup {c}
    /\ UNCHANGED <<remaining, completed>>

\* workflow() without its finally clause: the thread ends on the exception
\* and reports nothing
workflow_noReport(t) ==
    /\ pc # "exit"
    /\ t \in DOMAIN workers
    /\ workers[t].pc = "run"
    /\ UNCHANGED sweeperVars
    /\ \E putRaises \in BOOLEAN : ext_failure' = (ext_failure \/ putRaises)
    /\ workers' = Keep([workers EXCEPT ![t].pc = "dead"], threads)
    /\ UNCHANGED <<proto, options, pc, oargrid_job_id, job_is_dead, hosts,
                   available_hosts, threads, nthreads>>
    /\ UNCHANGED <<jobVars, spawned, sawDead, left>>

\* workflow() whose finally clause cancels every combination in progress,
\* those of the other threads included
workflow_cancelAll(t) ==
    /\ pc # "exit"
    /\ t \in DOMAIN workers
    /\ workers[t].pc = "run"
    /\ inprogress' = {}
    /\ canceled' = canceled \cup inprogress
    /\ UNCHANGED <<remaining, completed>>
    /\ \E putRaises \in BOOLEAN : ext_failure' = (ext_failure \/ putRaises)
    /\ workers' = Keep([workers EXCEPT ![t].pc = "dead"], threads)
    /\ UNCHANGED <<proto, options, pc, oargrid_job_id, job_is_dead, hosts,
                   available_hosts, threads, nthreads>>
    /\ UNCHANGED <<jobVars, spawned, sawDead, left>>

\* workflow() with done() called unconditionally before the test of
\* comb_ok, which then cancels as well
workflow_doneThenCancel(t) ==
    /\ pc # "exit"
    /\ t \in DOMAIN workers
    /\ workers[t].pc = "run"
    /\ LET comb_ok == FALSE
       IN /\ inprogress' = inprogress \ {workers[t].comb}
          /\ completed' = completed \cup {workers[t].comb}
          /\ canceled' = IF comb_ok THEN canceled
                         ELSE canceled \cup {workers[t].comb}
          /\ remaining' = remaining
    /\ \E putRaises \in BOOLEAN : ext_failure' = (ext_failure \/ putRaises)
    /\ workers' = Keep([workers EXCEPT ![t].pc = "dead"], threads)
    /\ UNCHANGED <<proto, options, pc, oargrid_job_id, job_is_dead, hosts,
                   available_hosts, threads, nthreads>>
    /\ UNCHANGED <<jobVars, spawned, sawDead, left>>

\* workflow(), lines 92-168, run by one thread. Line 101: Put(...).run()
\* raises (putRaises) or returns; when it returns, line 103 raises NameError
\* (ET is never imported, as are XML, name, shutil and JAVA further down),
\* so line 157 is never reached and comb_ok keeps the False of line 95.
\* The finally clause (lines 158-166) reports the combination and the
\* pending exception ends the thread. The thread touches no shared state
\* before the report
workflow(t) ==
    /\ pc # "exit"
    /\ t \in DOMAIN workers
    /\ workers[t].pc = "run"
    /\ LET comb_ok == FALSE
       IN IF comb_ok
          THEN done(workers[t].comb)
          ELSE cancel(workers[t].comb)
    /\ \E putRaises \in BOOLEAN : ext_failure' = (ext_failure \/ putRaises)
    /\ workers' = Keep([workers EXCEPT ![t].pc = "dead"], threads)
    /\ UNCHANGED <<proto, options, pc, oargrid_job_id, job_is_dead, hosts,
                   available_hosts, threads, nthreads>>
    /\ UNCHANGED <<jobVars, spawned, sawDead, left>>

\* ------------------------------------------------------ the environment
\* the reservation ends (walltime, error, deletion): is_job_alive() turns
\* false; the last reservation the model allows stays alive
JobDies ==
    /\ pc # "exit"
    /\ oargrid_job_id \in aliveJobs
    /\ oargrid_job_id < MaxJobs
    /\ aliveJobs' = aliveJobs \ {oargrid_job_id}
    /\ UNCHANGED <<proto, options, pc, oargrid_job_id, job_is_dead, njobs, released>>
    /\ UNCHANGED <<sweeperVars, poolVars, histVars>>

Worker == \E t \in DOMAIN workers : workflow(t)

Dispatcher ==
    \/ RunStart
    \/ OuterTest
    \/ MakeReservation
    \/ Deploy
    \/ LoopTest
    \/ WaitTest
    \/ Poll
    \/ Dispatch
    \/ NoneLeft
    \/ Drain
    \/ After
    \/ Finally

Next ==
    \/ Dispatcher
    \/ Raise
    \/ Worker
    \/ JobDies

Spec == Init /\ [][Next]_vars

\* the threads, the main thread and the workers make progress; the
\* reservation may or may not end, and no service has to raise
FairSpec ==
    /\ Spec
    /\ WF_vars(Dispatcher)
    /\ \A t \in 1 .. Cardinality(Combs) :
          WF_vars(workflow(t))

\* ------------------------------------------- the storage benchmark script
storage_site == "rennes"
distant_site == "nancy"

\* an exception no try block encloses ends the script where it stands
Uncaught == [proto EXCEPT !.pc = "exit"]

\* lines 14-17: ask storage5k for the chunk size and divide; out is the number
\* read from the output, None when int() cannot parse it (ValueError); a
\* chunk size of 0 raises ZeroDivisionError
get_chunk_size ==
    /\ proto.pc = "get_chunk_size"
    /\ \E out \in {None} \cup (1 .. MaxChunk) :
          proto' = IF out = None
                   THEN Uncaught
                   ELSE [proto EXCEPT !.chunk_size = out,
                                      !.number = 50 \div out,
                                      !.pc = "get_storage"]
    /\ UNCHANGED engineVars

\* lines 18-24: storage5k add; the output carries the OAR_JOB_ID of the
\* reservation granted, or no such line, and then storage_job_id is unbound
\* at line 24 (NameError)
get_storage ==
    /\ proto.pc = "get_storage"
    /\ \E j \in {None} \cup (1 .. MaxOarId) :
          proto' = IF j = None
                   THEN Uncaught
                   ELSE [proto EXCEPT
                            !.storage_job_id = j,
                            !.acquired = @ \cup {<<j, storage_site>>},
                            !.pc = "oarsub"]
    /\ UNCHANGED engineVars

\* lines 28-31: oarsub of one node on the distant site: the job is granted,
\* or the submission fails and oarsub raises or returns None as the job id
oarsub ==
    /\ proto.pc = "oarsub"
    /\ \/ \E j \in 1 .. MaxOarId :
             proto' = [proto EXCEPT
                          !.jobs = j,
                          !.acquired = @ \cup {<<j, distant_site>>},
                          !.pc = "get_oar_job_nodes"]
       \/ proto' = [proto EXCEPT !.pc = "get_oar_job_nodes"]
       \/ proto' = Uncaught
    /\ UNCHANGED engineVars

\* lines 34-35: list the nodes of the job and log the first one; the listing
\* raises (it does for the job id None), or returns no node and hosts[0]
\* raises IndexError, or returns the node
get_oar_job_nodes ==
    /\ proto.pc = "get_oar_job_nodes"
    /\ \/ /\ proto.jobs # None
          /\ proto' = [proto EXCEPT !.hosts = <<1>>, !.pc = "deploy"]
       \/ proto' = Uncaught
    /\ UNCHANGED engineVars

\* lines 39-43, inside the try block: deploy raises, or no host is deployed
\* and exit() raises SystemExit, or the node is deployed
deploy ==
    /\ proto.pc = "deploy"
    /\ \/ proto' = [proto EXCEPT !.pc = "finally"]
       \/ \E deployed \in {<<>>, proto.hosts} :
             proto' = [proto EXCEPT
                          !.hosts = deployed,
                          !.pc = IF Len(deployed) = 0
                                 THEN "finally" ELSE "mount_storage"]
    /\ UNCHANGED engineVars

\* lines 46-48, inside the try block: mount the storage on the node; the
\* command returns, or an exception is raised and the finally clause runs
mount_storage ==
    /\ proto.pc = "mount_storage"
    /\ \E ok \in BOOLEAN :
          proto' = [proto EXCEPT !.pc = IF ok THEN "bench_write" ELSE "finally"]
    /\ UNCHANGED engineVars

\* lines 51-55: the write benchmark and the parsing of its output, which
\* raises IndexError when dd printed no rate
bench_write ==
    /\ proto.pc = "bench_write"
    /\ \E ok \in BOOLEAN :
          proto' = [proto EXCEPT !.pc = IF ok THEN "bench_read" ELSE "finally"]
    /\ UNCHANGED engineVars

\* lines 58-62: the read benchmark; the finally clause follows either way
bench_read ==
    /\ proto.pc = "bench_read"
    /\ proto' = [proto EXCEPT !.pc = "finally"]
    /\ UNCHANGED engineVars

\* lines 64-67: the finally clause deletes both jobs
oardel ==
    /\ proto.pc = "finally"
    /\ proto' = [proto EXCEPT
                    !.deleted = @ \cup {<<proto.storage_job_id, storage_site>>,
                                        <<proto.jobs, distant_site>>},
                    !.pc = "exit"]
    /\ UNCHANGED engineVars

BenchNext ==
    \/ get_chunk_size
    \/ get_storage
    \/ oarsub
    \/ get_oar_job_nodes
    \/ deploy
    \/ mount_storage
    \/ bench_write
    \/ bench_read
    \/ oardel

\* the script runs on its own; the engine is not started
BenchInit ==
    /\ Init
    /\ options = [n_nodes |-> 1, oargrid_job_id |-> None, keep_alive |-> FALSE]

BenchSpec == BenchInit /\ [][BenchNext]_vars

\* ------------------------------------------------------------- claims
\* C1: once the sweeper exists, every combination is in exactly one of
\* remaining, in-progress, completed, canceled, and the four sets together
\* are the Cartesian product of the parameter ranges
C1_Partition ==
    pc # "start" =>
        /\ remaining \cup inprogress \cup completed \cup canceled
               = parameters[1] \X parameters[2]
        /\ \A c \in parameters[1] \X parameters[2] :
               Cardinality({S \in {"r", "i", "d", "c"} :
                   \/ S = "r" /\ c \in remaining
                   \/ S = "i" /\ c \in inprogress
                   \/ S = "d" /\ c \in completed
                   \/ S = "c" /\ c \in canceled}) = 1

\* C1 witness: get_next and a worker's report have both acted: a
\* combination is in progress on a tracked thread and another is canceled
C1_Witness ==
    /\ \E t \in threads : workers[t].comb \in inprogress
    /\ canceled # {}

\* C2: no two live workers are bound to the same combination, workers of an
\* earlier reservation included
C2_NoSharedComb ==
    \A t, u \in DOMAIN workers :
        (is_alive(t) /\ is_alive(u) /\ workers[t].comb = workers[u].comb)
            => t = u

\* C2 witness: a worker left over from a reservation that died is still
\* running while a worker of the next reservation runs
C2_Witness ==
    \E t, u \in DOMAIN workers :
        /\ is_alive(t) /\ is_alive(u)
        /\ workers[t].job # workers[u].job

\* C3: a combination is given to at most one thread over the run; once
\* handed out it is never remaining again, and a canceled combination
\* stays canceled
C3_AtMostOnce ==
    /\ [](\A c \in Combs : spawned[c] <= 1 /\ (spawned[c] = 1 => c \notin remaining))
    /\ [][canceled \subseteq canceled' /\ canceled \cap remaining' = {}]_vars

\* C3 witness: the run is over, every combination was canceled by its worker
\* and each was started once
C3_Witness ==
    /\ pc = "exit"
    /\ canceled = Combs
    /\ \A c \in Combs : spawned[c] = 1

\* number of times job j was passed to oargriddel
Releases(j) == Cardinality({i \in 1 .. Len(released) : released[i] = j})

\* C4: when no service failed, every reservation stayed alive, deployment
\* returned a host and n_nodes >= 1, a run that has ended has every
\* combination completed, each started exactly once
C4_AllCompleted ==
    (/\ pc = "exit"
     /\ options.n_nodes >= 1
     /\ ~ext_failure
     /\ aliveJobs = 1 .. njobs
     /\ hosts # <<>>)
        => (completed = Combs /\ \A c \in Combs : spawned[c] = 1)

\* C5: with n_nodes >= 1, once a poll of the reservation has returned false,
\* no combination is pulled with get_next and no thread is started on that reservation
C5_NoDispatchAfterDead ==
    [][(sawDead /\ options.n_nodes >= 1)
          => (nthreads' = nthreads /\ remaining' = remaining)]_vars

\* C6: when the dispatch loop is left with the reservation seen dead, every
\* thread it started has terminated and none of their combinations is in
\* progress
C6_LeftAfterWorkers ==
    (pc = "after" /\ sawDead) =>
        \A t \in threads : ~is_alive(t) /\ workers[t].comb \notin inprogress

\* C7 as stated: without keep-alive, at the exit of run() every reservation
\* acquired was passed to oargriddel exactly once
C7_ReleasedOncePerReservation ==
    (pc = "exit" /\ ~options.keep_alive) =>
        \A j \in 1 .. njobs : Releases(j) = 1

\* C7 amended: without keep-alive, oargriddel is called for no reservation
\* before the finally clause and at most once per reservation; at the exit
\* it has been called exactly once for the reservation still held and never
\* for the others, which were all dropped after a poll found them dead
C7_ReleasedOnceIfHeld ==
    ~options.keep_alive =>
        /\ \A j \in 1 .. njobs : Releases(j) <= 1
        /\ pc # "exit" => released = <<>>
        /\ pc = "exit" =>
              /\ released = IF oargrid_job_id # None
                            THEN <<oargrid_job_id>> ELSE <<>>
              /\ \A j \in 1 .. njobs :
                    j # oargrid_job_id => j \notin aliveJobs

\* C7 witness: the first reservation died and was dropped, a second one was
\* acquired and is the only one released at the exit
C7_Witness ==
    /\ pc = "exit"
    /\ ~options.keep_alive
    /\ njobs = 2
    /\ released = <<2>>

\* C8: with n_nodes >= 1 the threads in flight are at most n_nodes and at
\* most the slots of the current reservation
C8_BoundedWorkers ==
    (options.n_nodes >= 1 /\ pc \in {"loop", "wait", "poll", "next", "drain"}) =>
        /\ Cardinality(threads) <= options.n_nodes
        /\ Cardinality(threads) <= Len(Slots(hosts))

\* a tracked thread that has terminated and whose slot is still out
Finished(t) == t \in threads /\ ~is_alive(t)

\* some slot of a live reservation is held by a thread that has terminated
SlotOut == \E t \in threads : Finished(t) /\ workers[t].job \in aliveJobs

\* C9: a worker that failed has its combination canceled and not completed;
\* while its reservation is alive and combinations remain, the pass that
\* drops it from the dict appends its host to available_hosts, and that
\* pass comes eventually unless the reservation dies, the combinations run
\* out or run() is left through its finally clause
C9_FailedWorkerSlot ==
    /\ [](\A t \in DOMAIN workers :
             workers[t].pc = "dead" =>
                 (workers[t].comb \in canceled /\ workers[t].comb \notin completed))
    /\ [][\A t \in threads \ threads' :
             (Finished(t) /\ remaining # {} /\ workers[t].job \in aliveJobs) =>
                 /\ Len(available_hosts') =
                        Len(available_hosts) + Cardinality(threads \ threads')
                 /\ SubSeq(available_hosts', 1, Len(available_hosts))
                        = available_hosts
                 /\ \E i \in (Len(available_hosts) + 1) .. Len(available_hosts') :
                        available_hosts'[i] = workers[t].host]_vars
    /\ SlotOut ~> (~SlotOut \/ remaining = {} \/ pc \in {"finally", "exit"})

\* C9 witness: with a single slot, the first worker failed, its slot came
\* back and the second thread of the same reservation now runs on it
C9_Witness ==
    /\ Len(Slots(hosts)) = 1
    /\ njobs = 1
    /\ canceled # {}
    /\ nthreads = 2
    /\ 2 \in threads
    /\ is_alive(2)
    /\ workers[2].job \in aliveJobs

\* C10: when the dispatch loop is left through the drain, the dict of
\* threads is empty and no combination is in progress
C10_DrainedOnReturn ==
    (pc = "after" /\ left = "drain") =>
        (threads = {} /\ inprogress = {})

\* C11: when deploy() returns no host the run is aborted at once: from then
\* on no combination is pulled and no thread is started, the main thread is
\* in the finally clause or past it, and without keep-alive the reservation
\* held is the one passed to oargriddel
C11_ZeroHostsAbort ==
    /\ [][(pc = "deploy" /\ pc' # "deploy" /\ hosts' = <<>>) =>
             pc' = "finally"]_vars
    /\ [][left = "nohosts" =>
             /\ remaining' = remaining
             /\ nthreads' = nthreads
             /\ threads' = threads
             /\ pc' \in {"finally", "exit"}]_vars
    /\ [](left = "nohosts" =>
             /\ hosts = <<>>
             /\ pc \in {"finally", "exit"}
             /\ oargrid_job_id # None
             /\ (pc = "exit" /\ ~options.keep_alive)
                    => released = <<oargrid_job_id>>)

\* C11 witness: the run ended on a deployment without hosts, combinations
\* remain and the reservation was released
C11_Witness ==
    /\ pc = "exit"
    /\ left = "nohosts"
    /\ remaining # {}
    /\ released = <<oargrid_job_id>>

\* thread t ends in this step: its workflow() call returns or raises
WorkerEnds(t) ==
    /\ workers[t].pc = "run"
    /\ (t \in DOMAIN workers' => workers'[t].pc = "dead")

\* C12: the step in which a worker fails moves its own combination from
\* in-progress to canceled and marks its own thread finished, the slot
\* staying bound to it; the other combinations, the other threads, the pool
\* and the position and locals of the main thread are unchanged, and the
\* main thread still has a step to take
C12_FailureIsolated ==
    /\ [][\A t \in DOMAIN workers : WorkerEnds(t) =>
             /\ workers[t].comb \in inprogress
             /\ inprogress' = inprogress \ {workers[t].comb}
             /\ canceled' = canceled \cup {workers[t].comb}
             /\ remaining' = remaining
             /\ completed' = completed
             /\ \A u \in DOMAIN workers \ {t} :
                    u \in DOMAIN workers' /\ workers'[u] = workers[u]
             /\ t \in DOMAIN workers' =>
                    workers'[t] = [workers[t] EXCEPT !.pc = "dead"]
             /\ UNCHANGED <<pc, job_is_dead, oargrid_job_id, hosts,
                            available_hosts, threads, nthreads, njobs,
                            aliveJobs, released>>]_vars
    /\ []((canceled # {} /\ pc # "exit") => ENABLED Dispatcher)

\* C12 witness: on a pool of two slots with n_nodes = 2, the first worker
\* failed and the main thread went on to start the second one, which runs
C12_Witness ==
    /\ options.n_nodes = 2
    /\ Len(Slots(hosts)) = 2
    /\ njobs = 1
    /\ canceled # {}
    /\ nthreads = 2
    /\ 2 \in DOMAIN workers
    /\ is_alive(2)
    /\ workers[2].comb \in inprogress

\* C13: with keep-alive set oargriddel is never called, whatever way run()
\* ends; without it, a reservation id held when run() ends has been passed
\* to oargriddel
C13_KeepAlive ==
    /\ options.keep_alive => Len(released) = 0
    /\ (pc = "exit" /\ ~options.keep_alive /\ oargrid_job_id # None) =>
           \E i \in 1 .. Len(released) : released[i] = oargrid_job_id

\* C13 witness: run() ended on a raised exception with keep-alive set while
\* holding a reservation, which is still alive and was not deleted
C13_Witness ==
    /\ pc = "exit"
    /\ options.keep_alive
    /\ ext_failure
    /\ oargrid_job_id \in aliveJobs
    /\ released = <<>>

\* C14: whenever the test of the wait loop is made with fewer slots busy
\* than n_nodes, a slot available, the reservation alive and a combination
\* remaining, the main thread goes on to get_next and the thread start
\* instead of sleeping until more slots are given back
C14_DispatchWhenFree ==
    [][(/\ pc = "wait" /\ pc' # "wait"
        /\ Len(Slots(hosts)) - Len(available_hosts) < options.n_nodes
        /\ Len(available_hosts) >= 1
        /\ is_job_alive
        /\ remaining # {})
          => pc' = "next"]_vars

\* C15: the pool is a FIFO queue: a thread start binds the new thread to the
\* head of available_hosts and removes that head; outside the rebuilding of
\* the pool after a deployment, the only other change is the appending, at
\* the tail, of the hosts of the threads dropped from the dict; and with
\* n_nodes >= 1 the head is never read on an empty pool
C15_FifoSlots ==
    /\ [][nthreads' # nthreads =>
             /\ available_hosts # <<>>
             /\ workers'[nthreads'].host = Head(available_hosts)
             /\ available_hosts' = Tail(available_hosts)]_vars
    /\ [][(available_hosts' # available_hosts /\ nthreads' = nthreads) =>
             \/ pc = "deploy"
             \/ /\ Len(available_hosts') =
                       Len(available_hosts) + Cardinality(threads \ threads')
                /\ SubSeq(available_hosts', 1, Len(available_hosts))
                       = available_hosts
                /\ \A t \in threads \ threads' :
                       \E i \in (Len(available_hosts) + 1) .. Len(available_hosts') :
                           available_hosts'[i] = workers[t].host]_vars
    /\ []((options.n_nodes >= 1 /\ pc = "next") => available_hosts # <<>>)

\* C15 witness: host 1 was taken first, then host 2; the first thread ended
\* and its host came back behind the slot that had stayed in the pool
C15_Witness ==
    /\ available_hosts = <<2, 1>>
    /\ \E t \in threads : is_alive(t) /\ workers[t].host = 2

\* C16: the step in which a thread ends makes one terminal report for its
\* combination, done or cancel and not both: the combination was in
\* progress, with no report yet, and after the step it is in exactly one of
\* completed and canceled; and no thread that has ended is without a report
C16_OneReport ==
    /\ [][\A t \in DOMAIN workers : WorkerEnds(t) =>
             /\ workers[t].comb \in inprogress
             /\ workers[t].comb \notin completed \cup canceled
             /\ workers[t].comb \notin inprogress'
             /\ (workers[t].comb \in completed') # (workers[t].comb \in canceled')
             /\ completed' \cup canceled' =
                    completed \cup canceled \cup {workers[t].comb}]_vars
    /\ [][\A c \in completed \cup canceled :
             (c \in completed' <=> c \in completed)
                 /\ (c \in canceled' <=> c \in canceled)]_vars
    /\ [](\A t \in DOMAIN workers : ~is_alive(t) =>
             (workers[t].comb \in completed) # (workers[t].comb \in canceled))
    /\ [](\A c \in Combs :
             (c \in completed \cup canceled) => spawned[c] = 1)

\* C16 witness: every thread started has ended and reported, one of them
\* still in the dict, and each combination carries one report
C16_Witness ==
    /\ inprogress = {}
    /\ canceled = Combs
    /\ \E t \in threads : ~is_alive(t)
    /\ pc \in {"wait", "poll"}

\* occurrences of host h in the sequence s
Count(s, h) == Cardinality({i \in 1 .. Len(s) : s[i] = h})

\* C17: from the building of the pool to the start of the drain, the slots
\* are conserved: the free slots and the threads of the dict together number
\* the slots of the deployment, each thread of the dict holds one slot, and
\* each deployed host is counted smt_size times among the free slots and the
\* hosts of those threads, any other host not at all
C17_SlotConservation ==
    pc \in {"loop", "wait", "poll", "next"} =>
        /\ Len(available_hosts) + Cardinality(threads) = Len(Slots(hosts))
        /\ \A h \in Hosts :
               Count(available_hosts, h)
                   + Cardinality({t \in threads : workers[t].host = h})
               = IF Count(hosts, h) > 0 THEN smt_size(h) ELSE 0

\* C17 witness: on the pool of hosts 1 and 2, two threads were started and
\* one of them has been dropped from the dict, its slot free again
C17_Witness ==
    /\ pc \in {"wait", "poll", "next"}
    /\ hosts = <<1, 2>>
    /\ njobs = 1
    /\ nthreads = 2
    /\ Cardinality(threads) = 1
    /\ Len(available_hosts) = 2

\* C18: the death of the reservation does not end run(): the step that ends
\* an outer iteration on a dead reservation drops the job id and goes back
\* to the test of the outer loop, which, while combinations remain and no id
\* is held, leads to make_reservation and then to the deployment of the new
\* reservation; a reservation is acquired only while no id is held; the
\* finally clause is entered only from the outer test with nothing
\* remaining, from a deployment without hosts, or on an exception; and when
\* the threads make progress, a reservation found dead with combinations
\* remaining is followed by the dispatch loop on a newly acquired one,
\* unless run() goes to its finally clause for one of those reasons
C18_DeathRestarts ==
    /\ [][(pc = "after" /\ pc' # "after") =>
             /\ pc' = "outer"
             /\ (job_is_dead \/ ~is_job_alive) => oargrid_job_id' = None
             /\ ~(job_is_dead \/ ~is_job_alive) => oargrid_job_id' = oargrid_job_id]_vars
    /\ [][(pc = "outer" /\ pc' # "outer") =>
             /\ (remaining # {} /\ oargrid_job_id = None) => pc' = "reserve"
             /\ (remaining # {} /\ oargrid_job_id # None) => pc' = "deploy"
             /\ remaining = {} => pc' = "finally"]_vars
    /\ [][njobs' # njobs =>
             /\ pc = "reserve" /\ pc' = "deploy"
             /\ oargrid_job_id = None
             /\ oargrid_job_id' = njobs'
             /\ oargrid_job_id' \in aliveJobs']_vars
    /\ [](pc = "reserve" => oargrid_job_id = None)
    /\ [][(pc # "finally" /\ pc' = "finally") =>
             \/ pc = "outer" /\ remaining = {}
             \/ pc = "deploy" /\ hosts' = <<>> /\ left' = "nohosts"
             \/ pc \in {"reserve", "deploy", "next"} /\ ext_failure'
             \/ pc = "next" /\ available_hosts = <<>>]_vars
    /\ (pc = "after" /\ (job_is_dead \/ ~is_job_alive) /\ remaining # {})
           ~> (\/ pc = "loop" /\ oargrid_job_id = njobs /\ hosts # <<>>
               \/ pc \in {"finally", "exit"})

\* C18 witness: the first reservation died with combinations remaining, its
\* id was dropped, and the second reservation is deployed, its pool built
C18_Witness ==
    /\ pc = "loop"
    /\ njobs = 2
    /\ oargrid_job_id = 2
    /\ 1 \notin aliveJobs
    /\ remaining # {}
    /\ available_hosts = Slots(hosts)
    /\ hosts # <<>>

\* C19: when the benchmark script has ended, by whatever path, every
\* reservation it acquired, storage or node, has been passed to oardel
C19_AllReleased ==
    proto.pc = "exit" => proto.acquired \subseteq proto.deleted

TypeOK ==
    /\ pc \in {"start", "outer", "reserve", "deploy", "loop", "wait", "poll",
               "next", "drain", "after", "finally", "exit"}
    /\ remaining \subseteq Combs
    /\ threads \subseteq DOMAIN workers
    /\ \A t \in DOMAIN workers : workers[t].comb \in Combs
    /\ aliveJobs \subseteq 1 .. njobs
    /\ oargrid_job_id \in 0 .. njobs
====
